---- MODULE Spec2Model ----
(***************************************************************************)
(* BaseEar (openvoicechat/stt/base.py): the listening / interruption       *)
(* orchestration of a speech-to-text "ear".                                 *)
(*                                                                         *)
(* One orchestrator thread runs listen() or interrupt_listen(); in         *)
(* streaming mode it is helped by a capture worker (record_user_stream)    *)
(* and a transcription worker (transcribe_stream) that talk through two    *)
(* unbounded FIFO queues terminated by None.                               *)
(*                                                                         *)
(* Text is a sequence of one-character strings.  Audio is a sequence of    *)
(* blocks, each block standing for BlockSamples samples.  Time (the        *)
(* budget record_seconds and a window's duration) is kept in units of      *)
(* 1/SampleRate second, so that duration = len(audio) / 16_000 is exact.   *)
(***************************************************************************)
EXTENDS Integers, Sequences, FiniteSets, TLC

\* ---------------------------------------------------------------- bounds
MaxBlocks == 2      \* blocks in one captured piece of audio
MaxSpans == 2       \* spans the segmenter may report
MaxBudget == 2      \* seconds a caller passes to interrupt_listen
MaxChunks == 2      \* chunks the capture worker pushes before its sentinel
MaxFrags == 2       \* fragments the transcription worker pushes
MaxCalls == 3       \* where the counters of capture / transcribe calls saturate
MaxEvents == 8      \* events the sink keeps

\* ------------------------------------------------------ program constants
N == 2              \* n = 2, the tries of _listen
SampleRate == 16000 \* duration = len(interruption_audio) / 16_000

BlockSamples == SampleRate \div 2

\* ------------------------------------------------------------ value sets
Samples == {"x", "y"}

SeqsUpTo(S, k) == UNION {[1..m -> S] : m \in 0..k}

AudioSegments == SeqsUpTo(Samples, MaxBlocks)

\* What a transcriber may answer: "A.", "b!", " ." and "".
Texts == {<<"A", ".">>, <<"b", "!">>, <<" ", ".">>, <<>>}

\* The configurations of not_interrupt_words: a filler word, and a filler
\* word together with the empty string.
WordLists == {{<<"a">>}, {<<"a">>, <<>>}}

Min(a, b) == IF a < b THEN a ELSE b

Bump(c) == Min(c + 1, MaxCalls)

\* ------------------------------------------------------- python values
\* What is put on a queue is put by the call that made the queue: of = "this".
NoneItem == [k |-> "None", v |-> <<>>, of |-> "this"]

Item(x) == [k |-> "item", v |-> x, of |-> "this"]

\* The items of a queue made by an earlier call.
MarkEarlier(q) == [i \in DOMAIN q |-> [q[i] EXCEPT !.of = "earlier"]]

\* The queue of the call before, kept with what was left in it.
NewQueue_Reused(previous) == MarkEarlier(previous)

\* queue.Queue(): a new queue, empty, whatever the name was bound to before
NewQueue(previous) == <<>>

RetUnset == [t |-> "unset", v |-> <<>>]

RetFalse == [t |-> "False", v |-> <<>>]

RetNone == [t |-> "None", v |-> <<>>]

RetStr(s) == [t |-> "str", v |-> s]

\* bool(x) of a returned value: False, None and "" are falsy.
Truthy(r) == r.t = "str" /\ r.v # <<>>

VARIABLES
    stream, listen_interruptions, not_interrupt_words, logger,
    pc, op, ret, text,
    error, events, spawned_a, spawned_t, dropped,
    sentence_finished, first, audio, n,
    captures, transcripts, spans,
    audio_queue, transcription_queue, a_pc, t_pc, a_pushed, emitted,
    record_seconds, interruption_audio, duration, budget, il_calls, il_trans,
    il_arg, filtered

vars == <<stream, listen_interruptions, not_interrupt_words, logger,
          pc, op, ret, text,
          error, events, spawned_a, spawned_t, dropped,
          sentence_finished, first, audio, n,
          captures, transcripts, spans,
          audio_queue, transcription_queue, a_pc, t_pc, a_pushed, emitted,
          record_seconds, interruption_audio, duration, budget, il_calls, il_trans,
          il_arg, filtered>>

config == <<stream, listen_interruptions, not_interrupt_words, logger>>

\* What the model remembers of a call beside the program's own variables: whether
\* a collaborator has raised, what the logger was sent, the threads started,
\* and whether the last Queue() took the place of a queue that still held items.
ghostVars == <<error, events, spawned_a, spawned_t, dropped>>

listenVars == <<sentence_finished, first, audio, n, captures, transcripts, spans>>

queueVars == <<audio_queue, transcription_queue, a_pc, t_pc, a_pushed, emitted>>

interruptVars == <<record_seconds, interruption_audio, duration, budget, il_calls, il_trans,
                   il_arg, filtered>>

\* ----------------------------------------------------------------- Init
Init ==
    /\ stream \in BOOLEAN
    /\ listen_interruptions \in BOOLEAN
    /\ not_interrupt_words \in WordLists
    /\ logger \in BOOLEAN
    /\ error = FALSE
    /\ events = <<>>
    /\ spawned_a = 0
    /\ spawned_t = 0
    /\ dropped = FALSE
    /\ il_arg = 0
    /\ filtered = 0
    /\ pc = "idle"
    /\ op = "none"
    /\ ret = RetUnset
    /\ text = <<>>
    /\ sentence_finished = FALSE
    /\ first = TRUE
    /\ audio = <<>>
    /\ n = 0
    /\ captures = <<>>
    /\ transcripts = <<>>
    /\ spans = <<>>
    /\ audio_queue = <<>>
    /\ transcription_queue = <<>>
    /\ a_pc = "none"
    /\ t_pc = "none"
    /\ a_pushed = 0
    /\ emitted = <<>>
    /\ record_seconds = 0
    /\ interruption_audio = NoneItem
    /\ duration = 0
    /\ budget = 0
    /\ il_calls = 0
    /\ il_trans = 0

\* ---------------------------------------------------------- _log_event
\* What the sink keeps of logger.info(event, ...): the stage tag, the first
\* MaxEvents of them.
Recorded(log, event) == IF Len(log) < MaxEvents THEN Append(log, event) ELSE log

\* logger.info called whether or not there is a logger.
LogEvent_Unguarded(log, event) == Recorded(log, event)

\* if self.logger: self.logger.info(event, ...)
LogEvent(log, event) == IF logger THEN Recorded(log, event) ELSE log

\* ------------------------------------------------------------- _listen
\* The loop test without its sentence_finished half.
ListenContinue_IgnoringBoundary == n > 0

\* The loop test one try short.
ListenContinue_OneTryShort == ~sentence_finished /\ n > 1

\* while not sentence_finished and n > 0
ListenContinue == ~sentence_finished /\ n > 0

\* text + " ."
SegmentInput(t) == t \o <<" ", ".">>

\* The buffer replaced by the new segment.
Concatenate_Reset(a, new_audio) == new_audio

\* np.concatenate((audio, new_audio), 0)
Concatenate(a, new_audio) == a \o new_audio

\* listen() with stream = False: _listen up to the loop.
ListenEnter ==
    /\ pc = "idle"
    /\ ~stream
    /\ op' = "_listen"
    /\ pc' = "l_loop"
    /\ sentence_finished' = FALSE
    /\ first' = TRUE
    /\ audio' = <<>>
    /\ n' = N
    /\ UNCHANGED <<config, ghostVars, ret, text, captures, transcripts, spans,
                   queueVars, interruptVars>>

\* record_user(..., started=not first) and the concatenation.
ListenCapture ==
    /\ pc = "l_loop"
    /\ ListenContinue
    /\ \E new_audio \in AudioSegments :
          /\ audio' = Concatenate(audio, new_audio)
          /\ captures' = Append(captures, [started |-> ~first, seg |-> new_audio])
    /\ events' = LogEvent(events, "transcribing")
    /\ pc' = "l_transcribe"
    /\ UNCHANGED <<config, error, spawned_a, spawned_t, dropped, op, ret, text, sentence_finished, first, n,
                   transcripts, spans, queueVars, interruptVars>>

\* text = self.transcribe(audio); first = False
ListenTranscribe ==
    /\ pc = "l_transcribe"
    /\ \E t \in Texts :
          /\ text' = t
          /\ transcripts' = Append(transcripts, [arg |-> audio, text |-> t])
    /\ events' = LogEvent(LogEvent(events, "transcribed"), "segmenting")
    /\ first' = FALSE
    /\ pc' = "l_segment"
    /\ UNCHANGED <<config, error, spawned_a, spawned_t, dropped, op, ret, sentence_finished, audio, n, captures, spans,
                   queueVars, interruptVars>>

\* if len(seg.segment(text + " .")) > 1: ... else: n -= 1
ListenSegment ==
    /\ pc = "l_segment"
    /\ \E k \in 1..MaxSpans :
          /\ spans' = Append(spans, [input |-> SegmentInput(text), count |-> k])
          /\ IF k > 1
                THEN /\ sentence_finished' = TRUE
                     /\ n' = n
                     /\ events' = LogEvent(events, "sentence boundary detected")
                ELSE /\ sentence_finished' = sentence_finished
                     /\ n' = n - 1
                     /\ events' = LogEvent(events, "no sentence boundary detected")
    /\ pc' = "l_loop"
    /\ UNCHANGED <<config, error, spawned_a, spawned_t, dropped, op, ret, text, first, audio, captures, transcripts,
                   queueVars, interruptVars>>

\* the loop ends: return text
ListenReturn ==
    /\ pc = "l_loop"
    /\ ~ListenContinue
    /\ ret' = RetStr(text)
    /\ pc' = "returned"
    /\ UNCHANGED <<config, ghostVars, op, text, listenVars, queueVars, interruptVars>>

\* ------------------------------------------------- the streaming workers
\* What a streaming transcriber may put on the transcription queue: "A." and "".
Fragments == {<<"A", ".">>, <<>>}

\* What the capture worker pushes: blocks of int16 PCM.
Chunks == {<<"X">>, <<"Y">>}

\* (input_audio * (1 << 15)).astype(np.int16).tobytes(), sample by sample.
ToPCM(a) == [i \in 1..Len(a) |-> IF a[i] = "x" THEN "X" ELSE "Y"]

\* The fragment put in front of the text instead of behind it.
Accumulate_Prepend(t, fragment) == fragment \o <<" ">> \o t

\* text += _ + " "
Accumulate(t, fragment) == t \o fragment \o <<" ">>

\* A join that returns as soon as the thread was started.
Joined_WithoutWaiting(worker) == worker # "none"

\* A join that returns once the thread has put its sentinel.
Joined_AfterSentinel(worker) == worker \in {"exit", "sent", "late", "done", "failed"}

\* thread.join() returns once the thread has ended, by returning or by an
\* exception that nothing in the thread caught.
Joined(worker) == worker \in {"done", "failed"}

\* record_user_stream: pushes chunks ...
CapturePush ==
    /\ a_pc = "run"
    /\ a_pushed < MaxChunks
    /\ \E c \in Chunks : audio_queue' = Append(audio_queue, Item(c))
    /\ a_pushed' = a_pushed + 1
    /\ UNCHANGED <<config, ghostVars, pc, op, ret, text, listenVars, transcription_queue,
                   a_pc, t_pc, emitted, interruptVars>>

\* ... then the sentinel, on end of utterance ...
CaptureSentinel ==
    /\ a_pc = "run"
    /\ audio_queue' = Append(audio_queue, NoneItem)
    /\ a_pc' = "exit"
    /\ UNCHANGED <<config, ghostVars, pc, op, ret, text, listenVars, transcription_queue,
                   t_pc, a_pushed, emitted, interruptVars>>

\* ... and ends.
CaptureExit ==
    /\ a_pc = "exit"
    /\ a_pc' = "done"
    /\ UNCHANGED <<config, ghostVars, pc, op, ret, text, listenVars, audio_queue,
                   transcription_queue, t_pc, a_pushed, emitted, interruptVars>>

\* transcribe_stream: audio_queue.get(), blocking; None ends the input.
TranscribeGet ==
    /\ t_pc = "run"
    /\ audio_queue # <<>>
    /\ audio_queue' = Tail(audio_queue)
    /\ t_pc' = IF Head(audio_queue).k = "None" THEN "eos" ELSE "run"
    /\ UNCHANGED <<config, ghostVars, pc, op, ret, text, listenVars, transcription_queue,
                   a_pc, a_pushed, emitted, interruptVars>>

\* transcribe_stream: transcription_queue.put(fragment)
TranscribeEmit ==
    /\ t_pc \in {"run", "eos"}
    /\ Len(emitted) < MaxFrags
    /\ \E f \in Fragments :
          /\ transcription_queue' = Append(transcription_queue, Item(f))
          /\ emitted' = Append(emitted, f)
    /\ UNCHANGED <<config, ghostVars, pc, op, ret, text, listenVars, audio_queue,
                   a_pc, t_pc, a_pushed, interruptVars>>

\* transcribe_stream: transcription_queue.put(None)
TranscribeSentinel ==
    /\ t_pc = "eos"
    /\ transcription_queue' = Append(transcription_queue, NoneItem)
    /\ t_pc' = "sent"
    /\ UNCHANGED <<config, ghostVars, pc, op, ret, text, listenVars, audio_queue,
                   a_pc, a_pushed, emitted, interruptVars>>

\* A transcriber that still puts a fragment after its sentinel.
TranscribeLate ==
    /\ t_pc = "sent"
    /\ \E f \in Fragments : transcription_queue' = Append(transcription_queue, Item(f))
    /\ t_pc' = "late"
    /\ UNCHANGED <<config, ghostVars, pc, op, ret, text, listenVars, audio_queue,
                   a_pc, a_pushed, emitted, interruptVars>>

\* transcribe_stream returns: the thread ends.
TranscribeExit ==
    /\ t_pc \in {"sent", "late"}
    /\ t_pc' = "done"
    /\ UNCHANGED <<config, ghostVars, pc, op, ret, text, listenVars, audio_queue,
                   transcription_queue, a_pc, a_pushed, emitted, interruptVars>>

\* record_user_stream raises: the exception ends the capture thread and
\* goes no further.
CaptureRaises ==
    /\ a_pc = "run"
    /\ a_pc' = "failed"
    /\ error' = TRUE
    /\ UNCHANGED <<config, events, spawned_a, spawned_t, dropped, pc, op, ret, text,
                   listenVars, audio_queue, transcription_queue, t_pc, a_pushed,
                   emitted, interruptVars>>

\* transcribe_stream raises (the NotImplementedError of BaseEar, or an error
\* of the model): the exception ends the transcription thread and goes no
\* further.
TranscribeRaises ==
    /\ t_pc \in {"run", "eos"}
    /\ t_pc' = "failed"
    /\ error' = TRUE
    /\ UNCHANGED <<config, events, spawned_a, spawned_t, dropped, pc, op, ret, text,
                   listenVars, audio_queue, transcription_queue, a_pc, a_pushed,
                   emitted, interruptVars>>

\* ------------------------------------------------------ _listen_stream
\* A reader that takes None for a fragment.
IsSentinel_Never(item) == FALSE

\* if _ is None: break
IsSentinel(item) == item.k = "None"

\* listen() with stream = True: the queues, both threads started, text = "".
ListenStreamEnter ==
    /\ pc = "idle"
    /\ stream
    /\ op' = "_listen_stream"
    /\ audio_queue' = NewQueue(audio_queue)
    /\ transcription_queue' = NewQueue(transcription_queue)
    /\ dropped' = (audio_queue # <<>> \/ transcription_queue # <<>>)
    /\ a_pc' = "run"
    /\ t_pc' = "run"
    /\ a_pushed' = 0
    /\ emitted' = <<>>
    /\ text' = <<>>
    /\ spawned_a' = Bump(spawned_a)
    /\ spawned_t' = Bump(spawned_t)
    /\ pc' = "ls_get"
    /\ UNCHANGED <<config, error, events, ret, listenVars, interruptVars>>

\* _ = transcription_queue.get(); if _ is None: break; text += _ + " "
ListenStreamGet ==
    /\ pc = "ls_get"
    /\ transcription_queue # <<>>
    /\ transcription_queue' = Tail(transcription_queue)
    /\ IF IsSentinel(Head(transcription_queue))
          THEN pc' = "ls_join_audio" /\ text' = text
          ELSE pc' = pc /\ text' = Accumulate(text, Head(transcription_queue).v)
    /\ UNCHANGED <<config, ghostVars, op, ret, listenVars, audio_queue, a_pc, t_pc,
                   a_pushed, emitted, interruptVars>>

\* audio_thread.join()
ListenStreamJoinAudio ==
    /\ pc = "ls_join_audio"
    /\ Joined(a_pc)
    /\ pc' = "ls_join_transcription"
    /\ UNCHANGED <<config, ghostVars, op, ret, text, listenVars, queueVars, interruptVars>>

\* transcription_thread.join(); return text
ListenStreamJoinTranscription ==
    /\ pc = "ls_join_transcription"
    /\ Joined(t_pc)
    /\ ret' = RetStr(text)
    /\ pc' = "returned"
    /\ UNCHANGED <<config, ghostVars, op, text, listenVars, queueVars, interruptVars>>

\* ----------------------------------------------------- interrupt_listen
\* [^\w\s]: what re.sub removes is every character that is neither a word
\* character nor white space.
IsWordChar(c) == c \in {"a", "b", "A", "B", "_"}

IsSpace(c) == c = " "

StripPunctuation(s) == SelectSeq(s, LAMBDA c : IsWordChar(c) \/ IsSpace(c))

LowerChar(c) == IF c = "A" THEN "a" ELSE IF c = "B" THEN "b" ELSE c

Lower(s) == [i \in 1..Len(s) |-> LowerChar(s[i])]

RECURSIVE LStrip(_)
LStrip(s) == IF s # <<>> /\ IsSpace(Head(s)) THEN LStrip(Tail(s)) ELSE s

RECURSIVE RStrip(_)
RStrip(s) ==
    IF s # <<>> /\ IsSpace(s[Len(s)]) THEN RStrip(SubSeq(s, 1, Len(s) - 1)) ELSE s

\* White space taken off the left end only.
Strip_LeftOnly(s) == LStrip(s)

\* str.strip()
Strip(s) == RStrip(LStrip(s))

\* re.sub(r"[^\w\s]", "", text), then .lower(), then .strip()
Normalize(s) == Strip(Lower(StripPunctuation(s)))

\* if text in self.not_interrupt_words
Ignorable(t) == t \in not_interrupt_words

\* The flag not looked at.
InterruptDisabled_Never == FALSE

\* if not self.listen_interruptions
InterruptDisabled == ~listen_interruptions

\* what record_interruption may hand back: None, or a window of audio
Windows == {[i \in 1..m |-> "x"] : m \in 0..MaxBlocks}

\* len(interruption_audio) / 16_000, in units of 1/SampleRate second
Duration(a) == Len(a) * BlockSamples

\* One second taken off the budget, whatever the window's duration.
Decrement_BySecond(budgetLeft, d) == budgetLeft - SampleRate

\* record_seconds -= duration
Decrement(budgetLeft, d) == budgetLeft - d

\* The test for None left out.
NothingCaptured_Never(w) == FALSE

\* if interruption_audio is None
NothingCaptured(w) == w.k = "None"

\* The last text returned when the loop ends.
ExhaustedValue_LastText == RetStr(text)

\* the value of a call whose while loop ends: the function falls off its end
ExhaustedValue == RetNone

\* return "" on a window of None
NothingCapturedValue == RetStr(<<>>)

\* The loop entered with nothing left.
InterruptContinue_AtZero == record_seconds >= 0

\* while record_seconds > 0
InterruptContinue == record_seconds > 0

\* interrupt_listen(record_seconds = T): the test of listen_interruptions.
InterruptEnter ==
    /\ pc = "idle"
    /\ \E T \in 0..MaxBudget :
          /\ record_seconds' = T * SampleRate
          /\ budget' = T * SampleRate
    /\ op' = "interrupt_listen"
    /\ IF InterruptDisabled
          THEN ret' = RetFalse /\ pc' = "returned"
          ELSE ret' = ret /\ pc' = "il_loop"
    /\ UNCHANGED <<config, ghostVars, text, listenVars, queueVars, interruption_audio,
                   duration, il_calls, il_trans, il_arg, filtered>>

\* while record_seconds > 0: record_interruption(...); None returns "".
InterruptCapture ==
    /\ pc = "il_loop"
    /\ InterruptContinue
    /\ \E w \in {NoneItem} \cup {Item(a) : a \in Windows} :
          /\ interruption_audio' = w
          /\ IF NothingCaptured(w)
                THEN /\ ret' = NothingCapturedValue
                     /\ pc' = "returned"
                     /\ duration' = duration
                     /\ events' = events
                ELSE /\ ret' = ret
                     /\ pc' = "il_transcribe"
                     /\ duration' = Duration(w.v)
                     /\ events' = LogEvent(events, "transcribing interruption")
    /\ il_calls' = Bump(il_calls)
    /\ il_arg' = record_seconds
    /\ UNCHANGED <<config, error, spawned_a, spawned_t, dropped, op, text, listenVars, queueVars, record_seconds,
                   budget, il_trans, filtered>>

\* the while test fails: nothing is returned
InterruptExhausted ==
    /\ pc = "il_loop"
    /\ ~InterruptContinue
    /\ ret' = ExhaustedValue
    /\ pc' = "returned"
    /\ UNCHANGED <<config, ghostVars, op, text, listenVars, queueVars, interruptVars>>

\* text = self.transcribe(interruption_audio), stream = False
InterruptTranscribe ==
    /\ pc = "il_transcribe"
    /\ ~stream
    /\ \E t \in Texts : text' = t
    /\ il_trans' = Bump(il_trans)
    /\ events' = LogEvent(events, "interruption transcribed")
    /\ pc' = "il_filter"
    /\ UNCHANGED <<config, error, spawned_a, spawned_t, dropped, op, ret, listenVars, queueVars, record_seconds,
                   interruption_audio, duration, budget, il_calls, il_arg, filtered>>

\* The audio queue without its sentinel.
SimAudioQueue_NoSentinel(q, a) == Append(q, Item(ToPCM(a)))

\* audio_queue.put(input_buffer); audio_queue.put(None)
SimAudioQueue(q, a) == Append(Append(q, Item(ToPCM(a))), NoneItem)

\* _sim_transcribe_stream: the queues, the chunk, None, the thread started.
SimEnter ==
    /\ pc = "il_transcribe"
    /\ stream
    /\ audio_queue' = SimAudioQueue(NewQueue(audio_queue), interruption_audio.v)
    /\ transcription_queue' = NewQueue(transcription_queue)
    /\ dropped' = (audio_queue # <<>> \/ transcription_queue # <<>>)
    /\ t_pc' = "run"
    /\ emitted' = <<>>
    /\ il_trans' = Bump(il_trans)
    /\ spawned_t' = Bump(spawned_t)
    /\ pc' = "sim_join"
    /\ UNCHANGED <<config, error, events, spawned_a, op, ret, text,
                   listenVars, a_pc, a_pushed,
                   record_seconds, interruption_audio, duration, budget, il_calls,
                   il_arg, filtered>>

\* transcription_thread.join(); text = ""
SimJoin ==
    /\ pc = "sim_join"
    /\ Joined(t_pc)
    /\ text' = <<>>
    /\ pc' = "sim_get"
    /\ UNCHANGED <<config, ghostVars, op, ret, listenVars, queueVars, interruptVars>>

\* _ = transcription_queue.get(); if _ is None: break; text += _ + " "
SimGet ==
    /\ pc = "sim_get"
    /\ transcription_queue # <<>>
    /\ transcription_queue' = Tail(transcription_queue)
    /\ IF IsSentinel(Head(transcription_queue))
          THEN /\ pc' = "il_filter"
               /\ text' = text
               /\ events' = LogEvent(events, "interruption transcribed")
          ELSE /\ pc' = pc
               /\ text' = Accumulate(text, Head(transcription_queue).v)
               /\ events' = events
    /\ UNCHANGED <<config, error, spawned_a, spawned_t, dropped, op, ret, listenVars, audio_queue, a_pc, t_pc,
                   a_pushed, emitted, interruptVars>>

\* the text normalised, then: an ignorable word costs the window's duration
\* and the loop goes on; anything else is returned.
InterruptFilter ==
    /\ pc = "il_filter"
    /\ text' = Normalize(text)
    /\ IF Ignorable(Normalize(text))
          THEN /\ record_seconds' = Decrement(record_seconds, duration)
               /\ filtered' = filtered + Duration(interruption_audio.v)
               /\ events' = LogEvent(events, "not interruption")
               /\ pc' = "il_loop"
               /\ ret' = ret
          ELSE /\ record_seconds' = record_seconds
               /\ filtered' = filtered
               /\ events' = events
               /\ pc' = "returned"
               /\ ret' = RetStr(Normalize(text))
    /\ UNCHANGED <<config, error, spawned_a, spawned_t, dropped, op, listenVars, queueVars, interruption_audio,
                   duration, budget, il_calls, il_trans, il_arg>>

\* ---------------------------------------- an exception in the caller's thread
\* The orchestrator is inside record_user, transcribe, seg.segment or
\* record_interruption.
CallingCollaborator ==
    IF pc = "l_loop" THEN ListenContinue
    ELSE IF pc = "il_loop" THEN InterruptContinue
    ELSE IF pc = "il_transcribe" THEN ~stream
    ELSE pc \in {"l_transcribe", "l_segment"}

\* The collaborator raises: nothing catches it, the call ends with the exception.
CollaboratorRaises ==
    /\ CallingCollaborator
    /\ pc' = "raised"
    /\ error' = TRUE
    /\ UNCHANGED <<config, events, spawned_a, spawned_t, dropped, op, ret, text,
                   listenVars, queueVars, interruptVars>>

\* ----------------------------------------------------------- next call
\* The caller has the result and may call again: the locals of the call are
\* gone, but for the queues, whose items stay where they were left until the
\* names are bound again.
NextCall ==
    /\ pc \in {"returned", "raised"}
    /\ pc' = "idle"
    /\ op' = "none"
    /\ ret' = RetUnset
    /\ text' = <<>>
    /\ sentence_finished' = FALSE
    /\ first' = TRUE
    /\ audio' = <<>>
    /\ n' = 0
    /\ captures' = <<>>
    /\ transcripts' = <<>>
    /\ spans' = <<>>
    /\ audio_queue' = audio_queue
    /\ transcription_queue' = transcription_queue
    /\ a_pc' = "none"
    /\ t_pc' = "none"
    /\ a_pushed' = 0
    /\ emitted' = <<>>
    /\ record_seconds' = 0
    /\ interruption_audio' = NoneItem
    /\ duration' = 0
    /\ budget' = 0
    /\ il_calls' = 0
    /\ il_trans' = 0
    /\ il_arg' = 0
    /\ filtered' = 0
    /\ error' = FALSE
    /\ events' = <<>>
    /\ spawned_a' = 0
    /\ spawned_t' = 0
    /\ dropped' = FALSE
    /\ UNCHANGED config

Next ==
    \/ ListenEnter
    \/ ListenCapture
    \/ ListenTranscribe
    \/ ListenSegment
    \/ ListenReturn
    \/ ListenStreamEnter
    \/ ListenStreamGet
    \/ ListenStreamJoinAudio
    \/ ListenStreamJoinTranscription
    \/ CapturePush
    \/ CaptureSentinel
    \/ CaptureExit
    \/ TranscribeGet
    \/ TranscribeEmit
    \/ TranscribeSentinel
    \/ TranscribeLate
    \/ TranscribeExit
    \/ InterruptEnter
    \/ InterruptCapture
    \/ InterruptExhausted
    \/ InterruptTranscribe
    \/ SimEnter
    \/ SimJoin
    \/ SimGet
    \/ InterruptFilter
    \/ CaptureRaises
    \/ TranscribeRaises
    \/ CollaboratorRaises
    \/ NextCall

Spec == Init /\ [][Next]_vars

\* ------------------------------------------------------------- fairness
Orchestrator ==
    \/ ListenCapture
    \/ ListenTranscribe
    \/ ListenSegment
    \/ ListenReturn
    \/ ListenStreamGet
    \/ ListenStreamJoinAudio
    \/ ListenStreamJoinTranscription
    \/ InterruptCapture
    \/ InterruptExhausted
    \/ InterruptTranscribe
    \/ SimEnter
    \/ SimJoin
    \/ SimGet
    \/ InterruptFilter

CaptureWorker == CapturePush \/ CaptureSentinel \/ CaptureExit

TranscriptionWorker ==
    TranscribeGet \/ TranscribeEmit \/ TranscribeSentinel \/ TranscribeLate \/ TranscribeExit

\* A started thread that can take a step takes one: the orchestrator and each
\* worker are threads of their own.  Nothing obliges the caller to call.
FairSpec ==
    /\ Spec
    /\ WF_vars(Orchestrator)
    /\ WF_vars(CaptureWorker)
    /\ WF_vars(TranscriptionWorker)

\* ------------------------------------- streaming listen calls on their own
\* An ear made with stream = True.
StreamInit == Init /\ stream

\* The caller only ever calls listen().
StreamNext ==
    \/ ListenStreamEnter
    \/ ListenStreamGet
    \/ ListenStreamJoinAudio
    \/ ListenStreamJoinTranscription
    \/ CapturePush
    \/ CaptureSentinel
    \/ CaptureExit
    \/ TranscribeGet
    \/ TranscribeEmit
    \/ TranscribeSentinel
    \/ TranscribeLate
    \/ TranscribeExit
    \/ CaptureRaises
    \/ TranscribeRaises
    \/ NextCall

StreamFairSpec ==
    /\ StreamInit
    /\ [][StreamNext]_vars
    /\ WF_vars(Orchestrator)
    /\ WF_vars(CaptureWorker)
    /\ WF_vars(TranscriptionWorker)

\* =============================================================== claims
InListen == op = "_listen"

InListenStream == op = "_listen_stream"

InInterrupt == op = "interrupt_listen"

Returned == pc = "returned"

Boundaries == {k \in 1..Len(spans) : spans[k].count > 1}

FirstBoundary == CHOOSE k \in Boundaries : \A j \in Boundaries : k <= j

\* C1: once a cycle k of _listen has segmented text + " ." into more than one
\* span, that cycle is the last: exactly k captures, k transcriptions and k
\* segmentations have been made (k <= N), nothing but the return follows, and
\* the value returned is the text of cycle k.
C1_StopsAtFirstBoundary ==
    (InListen /\ Boundaries # {}) =>
        LET k == FirstBoundary IN
            /\ k <= N
            /\ Len(captures) = k
            /\ Len(transcripts) = k
            /\ Len(spans) = k
            /\ pc \in {"l_loop", "returned"}
            /\ ~ListenContinue
            /\ (Returned => ret = RetStr(transcripts[k].text))

C1_Witness ==
    /\ InListen
    /\ Returned
    /\ Len(spans) = 1
    /\ spans[1].count > 1
    /\ ret = RetStr(transcripts[1].text)

\* C2: a _listen call that returns without any segmentation having reported
\* more than one span has made exactly N cycles (N = 2, the tries written in
\* the code) and returns the text of cycle N.
C2_ExhaustsTries ==
    (InListen /\ Returned /\ Boundaries = {}) =>
        /\ Len(captures) = N
        /\ Len(transcripts) = N
        /\ Len(spans) = N
        /\ n = 0
        /\ ret = RetStr(transcripts[N].text)

C2_Witness ==
    /\ InListen
    /\ Returned
    /\ Boundaries = {}
    /\ Len(spans) = N
    /\ transcripts[1].text # transcripts[N].text

RECURSIVE SpaceJoin(_)
SpaceJoin(fs) ==
    IF fs = <<>> THEN <<>>
    ELSE IF Len(fs) = 1 THEN fs[1]
    ELSE fs[1] \o <<" ">> \o SpaceJoin(Tail(fs))

RECURSIVE EachThenSpace(_)
EachThenSpace(fs) ==
    IF fs = <<>> THEN <<>> ELSE Head(fs) \o <<" ">> \o EachThenSpace(Tail(fs))

\* C3 as claimed: what _listen_stream returns is the fragments pushed before
\* the transcription worker's sentinel, in push order, joined by single spaces.
C3_SpaceJoined ==
    (InListenStream /\ Returned) => ret = RetStr(SpaceJoin(emitted))

\* C3 as amended: what _listen_stream returns is the fragments pushed before
\* the transcription worker's sentinel, in push order, each followed by one
\* space (so a trailing space ends a non-empty transcript), and nothing that
\* was pushed after the sentinel.
C3_EachFragmentThenSpace ==
    (InListenStream /\ Returned) => ret = RetStr(EachThenSpace(emitted))

C3_Witness ==
    /\ InListenStream
    /\ Returned
    /\ Len(emitted) = 2
    /\ emitted[1] # emitted[2]
    /\ transcription_queue # <<>>

\* C4: when _listen_stream has returned, the capture worker and the
\* transcription worker have both ended.
C4_ReturnsAfterWorkers ==
    (InListenStream /\ Returned) => (a_pc = "done" /\ t_pc = "done")

C4_Witness ==
    /\ InListenStream
    /\ Returned
    /\ a_pushed > 0
    /\ transcription_queue # <<>>

\* C5: with listen_interruptions off, interrupt_listen returns False for
\* every budget, and neither record_interruption nor a transcription was called.
C5_DisabledNoCapture ==
    (InInterrupt /\ ~listen_interruptions) =>
        /\ Returned
        /\ ret = RetFalse
        /\ ~Truthy(ret)
        /\ il_calls = 0
        /\ il_trans = 0

C5_Witness ==
    /\ InInterrupt
    /\ ~listen_interruptions
    /\ Returned
    /\ budget = MaxBudget * SampleRate

\* C6: a window of None ends the call at once with "": the call has returned,
\* that window was not transcribed, and no capture follows, whatever budget
\* is left.
C6_NothingCapturedReturns ==
    (InInterrupt /\ il_calls > 0 /\ interruption_audio.k = "None") =>
        /\ Returned
        /\ ret = RetStr(<<>>)
        /\ ~Truthy(ret)
        /\ record_seconds > 0
        /\ (il_calls < MaxCalls => il_trans = il_calls - 1)

C6_Witness ==
    /\ InInterrupt
    /\ Returned
    /\ interruption_audio.k = "None"
    /\ il_calls = 2
    /\ il_trans = 1
    /\ record_seconds > 0
    /\ record_seconds < budget

\* The filter step on a window whose normalised transcription is ignorable:
\* nothing is returned, the budget goes down by the window's duration, and the
\* loop goes on.
FilterOfIgnorable ==
    (pc = "il_filter" /\ Normalize(text) \in not_interrupt_words) =>
        /\ pc' = "il_loop"
        /\ ret' = RetUnset
        /\ record_seconds' = record_seconds - Len(interruption_audio.v) * BlockSamples

\* C7 as claimed: an ignorable window is not returned, costs exactly its
\* duration and the loop goes on; and interrupt_listen never returns a member
\* of not_interrupt_words.
C7_NeverReturnsIgnorable ==
    /\ [][FilterOfIgnorable]_vars
    /\ []((InInterrupt /\ Returned /\ ret.t = "str") => ret.v \notin not_interrupt_words)

\* C7 as amended: an ignorable window is not returned, costs exactly its
\* duration and the loop goes on; and the only member of not_interrupt_words
\* that interrupt_listen can return is the empty string, as the value of a
\* window of None, when "" is configured as ignorable.
C7_IgnorableFiltered ==
    /\ [][FilterOfIgnorable]_vars
    /\ []((InInterrupt /\ Returned /\ ret.t = "str" /\ ret.v \in not_interrupt_words)
            => (ret.v = <<>> /\ interruption_audio.k = "None"))

C7_Witness ==
    /\ InInterrupt
    /\ pc = "il_loop"
    /\ il_calls = 1
    /\ text \in not_interrupt_words
    /\ text # <<>>
    /\ duration > 0
    /\ record_seconds = budget - duration

\* C8 as claimed: a call that returns because the normalised transcription of
\* a captured window is not ignorable returns a truthy, non-empty text.
C8_InterruptionTruthy ==
    (InInterrupt /\ Returned /\ il_calls > 0 /\ interruption_audio.k = "item"
        /\ text \notin not_interrupt_words)
    => (ret = RetStr(text) /\ Truthy(ret))

\* C9 as claimed: every call of interrupt_listen in which no collaborator
\* raises returns.
C9_Terminates == [](InInterrupt => <>(Returned \/ error))

\* C10: a call whose budget ran out on ignorable windows returns a falsy
\* value (False, None or ""), never a text.
C10_ExhaustedNoInterruption ==
    (InInterrupt /\ Returned /\ il_calls > 0 /\ ~(record_seconds > 0)) =>
        /\ ret.t \in {"False", "None", "str"}
        /\ ~Truthy(ret)

C10_Witness ==
    /\ InInterrupt
    /\ Returned
    /\ il_calls = 2
    /\ record_seconds < 0
    /\ text \in not_interrupt_words

\* Some thread of the call can take a step.
CanStep == ENABLED (Orchestrator \/ CaptureWorker \/ TranscriptionWorker)

\* C11 as claimed: once a collaborator has raised, the call ends with that
\* error: it has not returned a transcript, and it is not blocked for ever
\* (either the error has reached the caller or some thread can still move).
C11_ErrorReachesCaller ==
    error => (~Returned /\ (pc = "raised" \/ CanStep))

RECURSIVE Concatenation(_)
Concatenation(fs) == IF fs = <<>> THEN <<>> ELSE Head(fs) \o Concatenation(Tail(fs))

InSim == InInterrupt /\ stream

\* What C12 says of _sim_transcribe_stream beside the value it returns: its
\* audio queue holds the one chunk and then None; the transcription thread has
\* ended before a fragment is read; and while no collaborator has raised, some
\* thread can always move until the call is over.
SimProtocol ==
    /\ (pc = "sim_join" /\ t_pc = "run") =>
            audio_queue \in {<<Item(ToPCM(interruption_audio.v)), NoneItem>>, <<NoneItem>>}
    /\ (pc = "sim_join" /\ t_pc \notin {"run", "failed"}) => audio_queue = <<>>
    /\ (pc = "sim_get") => t_pc \in {"done", "failed"}
    /\ (pc \in {"sim_join", "sim_get"} /\ ~error) => CanStep

\* C12 as claimed: _sim_transcribe_stream keeps its protocol and returns the
\* concatenation of the fragments pushed before the transcriber's sentinel.
C12_SimConcatenation ==
    /\ SimProtocol
    /\ (InSim /\ pc = "il_filter") => text = Concatenation(emitted)

\* C12 as amended: _sim_transcribe_stream keeps its protocol and returns the
\* fragments pushed before the transcriber's sentinel, in order, each followed
\* by one space.
C12_SimEachFragmentThenSpace ==
    /\ SimProtocol
    /\ (InSim /\ pc = "il_filter") => text = EachThenSpace(emitted)

C12_Witness ==
    /\ InSim
    /\ pc = "il_filter"
    /\ Len(emitted) = 2
    /\ emitted[1] # emitted[2]
    /\ transcription_queue # <<>>
    /\ t_pc = "done"

\* The text the whole-buffer path hands to the filter for the window at hand:
\* in batch mode the text of transcribe; in streaming mode the text the
\* streaming path emitted, its fragments separated by single spaces.
WholeBufferText == IF stream THEN SpaceJoin(emitted) ELSE text

\* C13: interrupt_listen does not depend on the listening mode. Every capture
\* is made with the budget left, a window of None returns "" at once, and the
\* filter step taken on a window, in either mode, is the one the whole-buffer
\* text of that window determines: the same decision, the same budget
\* afterwards, the same value returned.
C13_ModeAgnostic ==
    [][/\ (pc = "il_loop" /\ pc' \in {"il_transcribe", "returned"} /\ record_seconds > 0) =>
              /\ il_arg' = record_seconds
              /\ record_seconds' = record_seconds
              /\ (pc' = "returned") = (interruption_audio' = NoneItem)
              /\ (pc' = "returned") => ret' = RetStr(<<>>)
       /\ (pc = "il_filter" /\ pc' # pc) =>
              IF Ignorable(Normalize(WholeBufferText))
                 THEN /\ pc' = "il_loop"
                      /\ record_seconds' = Decrement(record_seconds, duration)
                      /\ ret' = ret
                 ELSE /\ pc' = "returned"
                      /\ record_seconds' = record_seconds
                      /\ ret' = RetStr(Normalize(WholeBufferText))]_vars

C13_Witness ==
    /\ InSim
    /\ pc = "il_loop"
    /\ filtered > 0
    /\ Len(emitted) = 2
    /\ emitted[1] # emitted[2]
    /\ text = <<"a">>

RECURSIVE SegmentsOf(_)
SegmentsOf(cs) == IF cs = <<>> THEN <<>> ELSE Head(cs).seg \o SegmentsOf(Tail(cs))

\* C14: in _listen the buffer handed to transcribe in cycle k is the
\* concatenation, in capture order, of the segments captured in cycles 1..k,
\* and record_user is called with started = False in cycle 1 and with
\* started = True in every later cycle.
C14_BufferAppendOnly ==
    InListen =>
        /\ audio = SegmentsOf(captures)
        /\ Len(transcripts) \in {Len(captures), Len(captures) - 1}
        /\ \A k \in 1..Len(transcripts) :
               transcripts[k].arg = SegmentsOf(SubSeq(captures, 1, k))
        /\ \A k \in 1..Len(captures) : captures[k].started = (k > 1)

C14_Witness ==
    /\ InListen
    /\ Returned
    /\ Len(transcripts) = 2
    /\ captures[1].seg # <<>>
    /\ captures[2].seg # <<>>
    /\ captures[1].seg # captures[2].seg
    /\ transcripts[2].arg = captures[1].seg \o captures[2].seg

\* The four events of cycle k of _listen.
CycleEvents(k) ==
    <<"transcribing", "transcribed", "segmenting",
      IF spans[k].count > 1 THEN "sentence boundary detected"
                            ELSE "no sentence boundary detected">>

RECURSIVE EventsOfCycles(_)
EventsOfCycles(k) == IF k = 0 THEN <<>> ELSE EventsOfCycles(k - 1) \o CycleEvents(k)

\* The events of the finished cycles and of the part of a cycle under way.
ExpectedEvents ==
    EventsOfCycles(Len(spans))
        \o (IF Len(captures) > Len(spans) THEN <<"transcribing">> ELSE <<>>)
        \o (IF Len(transcripts) > Len(spans) THEN <<"transcribed", "segmenting">> ELSE <<>>)

\* C15: in _listen a logger receives, cycle after cycle, "transcribing",
\* "transcribed", "segmenting" and then one of "sentence boundary detected" and
\* "no sentence boundary detected"; without a logger nothing is sent, no step
\* of the loop waits, and the cycles made, the calls made and the text returned
\* are what the answers of the transcriber and of the segmenter determine,
\* with or without a logger.
C15_Telemetry ==
    InListen =>
        /\ events = (IF logger THEN ExpectedEvents ELSE <<>>)
        /\ pc \in {"l_loop", "l_transcribe", "l_segment"} => ENABLED Orchestrator
        /\ Len(captures) <= N
        /\ Len(spans) <= Len(transcripts) /\ Len(transcripts) <= Len(captures)
        /\ Len(captures) <= Len(spans) + 1
        /\ Returned =>
               /\ Len(spans) = Len(captures)
               /\ Len(spans) = (IF Boundaries = {} THEN N ELSE FirstBoundary)
               /\ ret = RetStr(transcripts[Len(transcripts)].text)

C15_Witness ==
    /\ InListen
    /\ Returned
    /\ logger
    /\ events = <<"transcribing", "transcribed", "segmenting",
                  "no sentence boundary detected",
                  "transcribing", "transcribed", "segmenting",
                  "sentence boundary detected">>

\* Thread.is_alive(): started and not yet ended.
Alive(worker) == worker \notin {"none", "done", "failed"}

AliveWorkers == (IF Alive(a_pc) THEN 1 ELSE 0) + (IF Alive(t_pc) THEN 1 ELSE 0)

BetweenCalls == pc \in {"idle", "returned", "raised"}

\* C16: at most two workers are alive at any moment; a streaming listen call
\* starts one capture thread and one transcription thread, once, and makes no
\* capture, transcription or segmentation of the batch loop; interrupt_listen
\* starts at most one transcription thread per transcribed window and no
\* capture thread, _listen starts none; and whenever no call is under way no
\* worker is alive.
C16_Workers ==
    /\ AliveWorkers <= 2
    /\ BetweenCalls => AliveWorkers = 0
    /\ InListenStream =>
           /\ spawned_a = 1 /\ spawned_t = 1
           /\ captures = <<>> /\ transcripts = <<>> /\ spans = <<>>
    /\ InInterrupt =>
           /\ spawned_a = 0 /\ ~Alive(a_pc)
           /\ spawned_t = (IF stream THEN il_trans ELSE 0)
    /\ InListen => spawned_a = 0 /\ spawned_t = 0 /\ AliveWorkers = 0

C16_Witness ==
    /\ InListenStream
    /\ Returned
    /\ a_pc = "done" /\ t_pc = "done"
    /\ a_pushed = MaxChunks
    /\ Len(emitted) > 0

\* C17: with every thread taking the steps it can take, a _listen_stream call
\* whose workers keep the sentinel contract (neither of them ends with an
\* exception) returns: the reads of the transcription queue and both joins
\* complete.
C17_ListenStreamReturns == [](InListenStream => <>(Returned \/ error))

C17_Witness ==
    /\ InListenStream
    /\ Returned
    /\ ~error
    /\ a_pushed > 0
    /\ Len(emitted) = MaxFrags
    /\ text = EachThenSpace(emitted)
    /\ transcription_queue # <<>>

\* The last call of record_interruption has returned and the call is still
\* dealing with its window, or has returned because of it.
AfterCapture ==
    /\ il_calls > 0
    /\ \/ pc \in {"il_transcribe", "sim_join", "sim_get", "il_filter"}
       \/ pc = "returned" /\ ret.t = "str"

\* C18: in interrupt_listen the budget left is T less the durations of the
\* windows filtered as ignorable so far, every call of record_interruption is
\* made with that budget and with the budget above zero, and once the budget
\* is zero or less no further call is made.
C18_PositiveBudget ==
    /\ [](InInterrupt =>
             /\ record_seconds = budget - filtered
             /\ il_calls > 0 => il_arg > 0
             /\ AfterCapture => il_arg = budget - filtered)
    /\ [][(InInterrupt /\ pc = "il_loop" /\ record_seconds <= 0) =>
              /\ pc' \in {"il_loop", "returned"}
              /\ pc' = "returned" => ret' = RetNone
              /\ il_calls' = il_calls /\ il_arg' = il_arg
              /\ interruption_audio' = interruption_audio]_vars

C18_Witness ==
    /\ InInterrupt
    /\ pc = "il_transcribe"
    /\ filtered > 0
    /\ il_calls = 2
    /\ il_arg = budget - filtered
    /\ il_arg < budget

\* A call of _listen_stream or of _sim_transcribe_stream is at work on its queues.
UsingQueues == pc \in {"ls_get", "ls_join_audio", "ls_join_transcription", "sim_join", "sim_get"}

FromThisCall(q) == \A i \in DOMAIN q : q[i].of = "this"

\* C19: a call of _listen_stream or of _sim_transcribe_stream works on queues
\* of its own: whatever an earlier call left behind, a fragment put after its
\* sentinel included, every item in the queues of the call at work was put
\* there for this call, and the transcript of the call is made of the
\* fragments of this call alone.
C19_FreshQueues ==
    /\ UsingQueues => FromThisCall(audio_queue) /\ FromThisCall(transcription_queue)
    /\ (pc \in {"ls_join_audio", "ls_join_transcription"} \/ (InListenStream /\ Returned)) =>
           text = EachThenSpace(emitted)
    /\ (InSim /\ pc = "il_filter") => text = EachThenSpace(emitted)

C19_Witness ==
    /\ dropped
    /\ pc \in {"ls_join_audio", "il_filter"}
    /\ stream
    /\ Len(emitted) > 0
    /\ text = EachThenSpace(emitted)

====
